---- MODULE Spec2Model ----
(***************************************************************************)
(* Model of src/app.py, the Streamlit solar-flare dashboard.               *)
(*                                                                         *)
(* The script is re-executed top to bottom on every user interaction.  One *)
(* action of the model is one such execution: load_data (memoised by       *)
(* st.cache_data), the sidebar widgets, the date/class filter, the         *)
(* is_high_activity tag, the statistics cards and the daily summary.       *)
(*                                                                         *)
(* Encodings.  Time is counted in hours since day 0.  A timestamp token of *)
(* the CSV ("YYYY-MM-DDTHHMMSSZ") is the integer day*100 + hour, so that   *)
(* parsing is a real conversion that can fail (hour field out of range).   *)
(* Flux is counted in units of 5e-7 W/m^2, so the default threshold 1e-6   *)
(* is 2.  A float quotient a/b is kept as the pair [num, den]; it is NaN   *)
(* exactly when 0/0.                                                       *)
(***************************************************************************)
EXTENDS Integers, Sequences, FiniteSets, TLC

\* ---- bounds of the model ----
MaxRows == 3
MaxReads == 3

\* ---- program constants ----
HoursPerDay == 24
DefaultSpanDays == 30
DefaultThreshold == 2
NaN == -1
NaT == -1
NoValue == "<NA>"
All == "All"

VARIABLES source, cache, reads, status, df, date_touched, date_range,
          selected_flare, flux_threshold, df_filtered, stats, daily_stats

vars == <<source, cache, reads, status, df, date_touched, date_range,
          selected_flare, flux_threshold, df_filtered, stats, daily_stats>>

\* ---- the CSV file ----
\* Rows a source file is drawn from: two records on one date, a record with
\* absent flux/class/status, records exactly 30 days and 30 days + 1 hour
\* after the first, an empty timestamp cell and a malformed timestamp.
SourceRows ==
  { [timestamp_utc |-> 100,  xrs_b_flux |-> 1,   flare_class |-> "B",     status |-> NoValue],
    [timestamp_utc |-> 105,  xrs_b_flux |-> 3,   flare_class |-> "C",     status |-> "EVENTPEAK"],
    [timestamp_utc |-> 200,  xrs_b_flux |-> NaN, flare_class |-> NoValue, status |-> NoValue],
    [timestamp_utc |-> 3100, xrs_b_flux |-> 2,   flare_class |-> "B",     status |-> NoValue],
    [timestamp_utc |-> 3101, xrs_b_flux |-> 3,   flare_class |-> "C",     status |-> "EVENTPEAK"],
    [timestamp_utc |-> NaN,  xrs_b_flux |-> 1,   flare_class |-> "B",     status |-> NoValue],
    [timestamp_utc |-> 125,  xrs_b_flux |-> 1,   flare_class |-> "B",     status |-> NoValue] }

SourceFiles == UNION { [1..n -> SourceRows] : n \in 0..MaxRows }

ThresholdChoices == {DefaultThreshold, DefaultThreshold + 1}

\* ---- frames ----
CsvColumns == {"timestamp_utc", "xrs_b_flux", "flare_class", "status"}
LoadedColumns == CsvColumns \cup {"date", "hour"}

EmptyFrame == [obj |-> "none", columns |-> {}, rows |-> <<>>]

\* pd.read_csv: one record per line, RangeIndex 0..n-1, in file order.
read_csv(src) ==
  [obj |-> "canonical", columns |-> CsvColumns,
   rows |-> [i \in 1..Len(src) |->
              [index |-> i - 1,
               timestamp_utc |-> src[i].timestamp_utc,
               xrs_b_flux |-> src[i].xrs_b_flux,
               flare_class |-> src[i].flare_class,
               status |-> src[i].status]]]

\* strptime with format '%Y-%m-%dT%H%M%SZ': the token matches the format.
MatchesFormat(tok) == tok >= 0 /\ tok % 100 < HoursPerDay

\* The parsed instant of a well-formed token; an empty cell parses to NaT.
ParseToken(tok) ==
  IF tok = NaN THEN NaT ELSE (tok \div 100) * HoursPerDay + (tok % 100)

\* pd.to_datetime(column, format=..., utc=True) with the default
\* errors='raise': one token that does not match raises for the whole column.
to_datetime_raises(frame) ==
  \E i \in 1..Len(frame.rows) :
     /\ frame.rows[i].timestamp_utc # NaN
     /\ ~MatchesFormat(frame.rows[i].timestamp_utc)

\* .dt.date and .dt.hour; NaT stays NaT.
dt_date(ts) == IF ts = NaT THEN NaT ELSE ts \div HoursPerDay
dt_hour(ts) == IF ts = NaT THEN NaN ELSE ts % HoursPerDay

\* A stable insertion sort by timestamp (what df.sort_values('timestamp_utc',
\* kind='stable') would give), used to tell a sorting loader from this one.
RECURSIVE InsertByTime(_, _)
InsertByTime(sorted, r) ==
  IF sorted = <<>> THEN <<r>>
  ELSE IF r.timestamp_utc < Head(sorted).timestamp_utc THEN <<r>> \o sorted
  ELSE <<Head(sorted)>> \o InsertByTime(Tail(sorted), r)

RECURSIVE SortByTime(_, _)
SortByTime(rows, i) ==
  IF i = 0 THEN <<>> ELSE InsertByTime(SortByTime(rows, i - 1), rows[i])

LoadOrderSorted(rows) == SortByTime(rows, Len(rows))

\* The row order of the table load_data returns: the file's order, as the
\* function never sorts.
LoadOrder(rows) == rows

\* Body of load_data after read_csv, for a column that parses.
ParseFrame(frame) ==
  LET rs == LoadOrder(frame.rows) IN
  [obj |-> frame.obj, columns |-> LoadedColumns,
   rows |-> [i \in 1..Len(rs) |->
              LET ts == ParseToken(rs[i].timestamp_utc) IN
              [index |-> rs[i].index,
               timestamp_utc |-> ts,
               date |-> dt_date(ts),
               hour |-> dt_hour(ts),
               xrs_b_flux |-> rs[i].xrs_b_flux,
               flare_class |-> rs[i].flare_class,
               status |-> rs[i].status]]]

\* ---- load_data and its memo ----
CacheHitNever(memo) == FALSE

\* st.cache_data keeps one entry for the argument-less load_data: the memo is
\* empty or holds the table of the first call that returned.
CacheHit(memo) == Len(memo) > 0

\* One call of the decorated load_data.  A hit returns a copy of the stored
\* table and does not run the body; a miss runs the body (one file read) and
\* stores the result unless the body raised.
load_data(memo, src) ==
  IF CacheHit(memo)
    THEN [raised |-> FALSE, table |-> memo[1], memo |-> memo, read |-> FALSE]
    ELSE LET frame == read_csv(src) IN
         IF to_datetime_raises(frame)
           THEN [raised |-> TRUE, table |-> EmptyFrame, memo |-> memo, read |-> TRUE]
           ELSE LET t == ParseFrame(frame) IN
                [raised |-> FALSE, table |-> t, memo |-> <<t>>, read |-> TRUE]

\* ---- sidebar ----
ValidTimes(frame) ==
  { frame.rows[i].timestamp_utc : i \in 1..Len(frame.rows) } \ {NaT}

\* Series.min() / Series.max() skip NaT; NaT when nothing is left.
SeriesMin(S) == IF S = {} THEN NaT ELSE CHOOSE x \in S : \A y \in S : x <= y
SeriesMax(S) == IF S = {} THEN NaT ELSE CHOOSE x \in S : \A y \in S : x >= y

min_date(frame) == SeriesMin(ValidTimes(frame))
max_date(frame) == SeriesMax(ValidTimes(frame))

DefaultDateRangeFull(frame) == <<min_date(frame), max_date(frame)>>

\* value=(min_date, min_date + pd.Timedelta(days=30))
DefaultDateRange(frame) ==
  <<min_date(frame), min_date(frame) + DefaultSpanDays * HoursPerDay>>

\* The slider widens max_value to the default's end when that lies beyond
\* max_date, so every position from min_date to SliderMax can be chosen.
SliderMax(frame) ==
  LET d == DefaultDateRange(frame) IN
  IF d[2] > max_date(frame) THEN d[2] ELSE max_date(frame)

\* Slider positions the model lets the user pick: the instants of the records
\* and the default end.
SliderStops(frame) ==
  { t \in ValidTimes(frame) \cup {DefaultDateRange(frame)[2]} :
      min_date(frame) <= t /\ t <= SliderMax(frame) }

\* ['All'] + sorted(df['flare_class'].dropna().unique().tolist()); the order
\* matters only for display and for the default, which is the first entry.
flare_classes(frame) ==
  {All} \cup ({ frame.rows[i].flare_class : i \in 1..Len(frame.rows) } \ {NoValue})

\* ---- filtering ----
\* Comparisons of a datetime column with a bound: NaT compares False.
Ge(ts, bound) == ts # NaT /\ ts >= bound
Le(ts, bound) == ts # NaT /\ ts <= bound

DateMaskExclusiveEnd(frame, dr) ==
  [i \in 1..Len(frame.rows) |->
     Ge(frame.rows[i].timestamp_utc, dr[1])
     /\ frame.rows[i].timestamp_utc # NaT /\ frame.rows[i].timestamp_utc < dr[2]]

DateMask(frame, dr) ==
  [i \in 1..Len(frame.rows) |->
     Ge(frame.rows[i].timestamp_utc, dr[1]) /\ Le(frame.rows[i].timestamp_utc, dr[2])]

ClassMask(frame, sel) ==
  [i \in 1..Len(frame.rows) |-> frame.rows[i].flare_class = sel]

RECURSIVE Take(_, _, _)
Take(rows, mask, i) ==
  IF i > Len(rows) THEN <<>>
  ELSE (IF mask[i] THEN <<rows[i]>> ELSE <<>>) \o Take(rows, mask, i + 1)

\* Indexing that hands back the frame itself when the mask keeps every row.
BoolIndexView(frame, mask) ==
  IF \A i \in 1..Len(frame.rows) : mask[i]
    THEN frame
    ELSE [obj |-> "filtered", columns |-> frame.columns, rows |-> Take(frame.rows, mask, 1)]

\* frame[mask]: boolean indexing yields a new object holding copies of the
\* selected rows, in their original order.
BoolIndex(frame, mask) ==
  [obj |-> "filtered", columns |-> frame.columns, rows |-> Take(frame.rows, mask, 1)]

\* Lines 61-69: the date clause, then the class clause unless 'All'.
ApplyFilters(frame, dr, sel) ==
  LET byDate == BoolIndex(frame, DateMask(frame, dr)) IN
  IF sel # All THEN BoolIndex(byDate, ClassMask(byDate, sel)) ELSE byDate

\* ---- high-activity tag ----
IsHighActivityGe(flux, thr) == flux # NaN /\ flux >= thr

\* df_filtered['xrs_b_flux'] > flux_threshold; NaN compares False.
IsHighActivity(flux, thr) == flux # NaN /\ flux > thr

WithTag(r, thr) ==
  [index |-> r.index, timestamp_utc |-> r.timestamp_utc, date |-> r.date,
   hour |-> r.hour, xrs_b_flux |-> r.xrs_b_flux, flare_class |-> r.flare_class,
   status |-> r.status, is_high_activity |-> IsHighActivity(r.xrs_b_flux, thr)]

\* frame['is_high_activity'] = ... writes the column into the object frame
\* refers to.
SetTagColumn(frame, thr) ==
  [obj |-> frame.obj, columns |-> frame.columns \cup {"is_high_activity"},
   rows |-> [i \in 1..Len(frame.rows) |-> WithTag(frame.rows[i], thr)]]

\* ---- statistics cards ----
\* A float quotient a / b, kept exact; 0 / 0 is NaN (numpy scalar division
\* and the mean of an empty Series warn and give nan, they do not raise).
Quotient(a, b) == [num |-> a, den |-> b]
IsNaNQuotient(q) == q.den = 0 /\ q.num = 0

RECURSIVE SumFlux(_, _)
SumFlux(rows, i) ==
  IF i > Len(rows) THEN 0
  ELSE (IF rows[i].xrs_b_flux = NaN THEN 0 ELSE rows[i].xrs_b_flux) + SumFlux(rows, i + 1)

\* Series.count(): the number of non-NaN values.
CountFlux(rows) == Cardinality({ i \in 1..Len(rows) : rows[i].xrs_b_flux # NaN })

\* df_filtered['status'].notna().sum()
CountStatus(rows) == Cardinality({ i \in 1..Len(rows) : rows[i].status # NoValue })

\* df_filtered['is_high_activity'].sum()
CountTagged(rows) == Cardinality({ i \in 1..Len(rows) : rows[i].is_high_activity })

\* Series.mean(): the mean of the non-NaN values.
MeanFlux(rows) == Quotient(SumFlux(rows, 1), CountFlux(rows))

\* Lines 89-118: the four metric cards.
Statistics(view, frame) ==
  LET high == CountTagged(view.rows) IN
  [total_records |-> Len(view.rows),
   total_pct     |-> Quotient(Len(view.rows) * 100, Len(frame.rows)),
   high_activity |-> high,
   high_pct      |-> Quotient(high * 100, Len(view.rows)),
   event_count   |-> CountStatus(view.rows),
   avg_flux      |-> MeanFlux(view.rows)]

NoStatistics ==
  [total_records |-> 0, total_pct |-> Quotient(0, 1), high_activity |-> 0,
   high_pct |-> Quotient(0, 1), event_count |-> 0, avg_flux |-> Quotient(0, 1)]

\* ---- daily summary ----
RECURSIVE SortedSeq(_)
SortedSeq(S) ==
  IF S = {} THEN <<>>
  ELSE LET m == CHOOSE x \in S : \A y \in S : x <= y IN <<m>> \o SortedSeq(S \ {m})

\* groupby('date'): one group per distinct key, keys sorted, null keys
\* dropped.
GroupKeys(view) ==
  SortedSeq({ view.rows[i].date : i \in 1..Len(view.rows) } \ {NaT})

OnDate(r, d) == r.date = d
Group(view, d) == SelectSeq(view.rows, LAMBDA r : OnDate(r, d))

\* 'max' over a group: the largest non-NaN value, NaN when there is none.
RECURSIVE FoldMax(_, _, _)
FoldMax(rows, i, acc) ==
  IF i > Len(rows) THEN acc
  ELSE LET x == rows[i].xrs_b_flux IN
       FoldMax(rows, i + 1, IF x # NaN /\ (acc = NaN \/ x > acc) THEN x ELSE acc)

RECURSIVE FoldLast(_, _, _)
FoldLast(rows, i, acc) ==
  IF i > Len(rows) THEN acc
  ELSE FoldLast(rows, i + 1, IF rows[i].xrs_b_flux # NaN THEN rows[i].xrs_b_flux ELSE acc)

AggLast(rows) == FoldLast(rows, 1, NaN)

AggMax(rows) == FoldMax(rows, 1, NaN)

\* 'count' over a group: the number of non-NaN values of the column.
AggCount(rows) == CountFlux(rows)

\* 'sum' of the boolean tag over a group.
AggSumTag(rows) == CountTagged(rows)

\* Lines 231-236.
DailyStats(view) ==
  LET keys == GroupKeys(view) IN
  [k \in 1..Len(keys) |->
     LET g == Group(view, keys[k]) IN
     [date |-> keys[k],
      max_flux |-> AggMax(g),
      avg_flux |-> MeanFlux(g),
      total_minutes |-> AggCount(g),
      high_activity_minutes |-> AggSumTag(g)]]

\* ---- one execution of the script ----
\* After the tag is written: the object df names.  It changes only if the
\* filtered frame is the same object.
CanonicalAfter(frame, tagged) == IF tagged.obj = frame.obj THEN tagged ELSE frame

\* The whole script for the widget state (touched, user range, class,
\* threshold).  load_data raising ends the run at line 40; a table with no
\* valid timestamp has NaT slider bounds and the run ends at the slider.
RunScript(touched, userRange, sel, thr) ==
  LET ld == load_data(cache, source) IN
  IF ld.raised
    THEN [status |-> "load_error", memo |-> ld.memo, read |-> ld.read,
          df |-> EmptyFrame, date_range |-> userRange,
          df_filtered |-> EmptyFrame, stats |-> NoStatistics, daily_stats |-> <<>>]
  ELSE IF min_date(ld.table) = NaT
    THEN [status |-> "slider_error", memo |-> ld.memo, read |-> ld.read,
          df |-> ld.table, date_range |-> userRange,
          df_filtered |-> EmptyFrame, stats |-> NoStatistics, daily_stats |-> <<>>]
  ELSE LET frame  == ld.table
           dr     == IF touched THEN userRange ELSE DefaultDateRange(frame)
           tagged == SetTagColumn(ApplyFilters(frame, dr, sel), thr)
       IN [status |-> "ok", memo |-> ld.memo, read |-> ld.read,
           df |-> CanonicalAfter(frame, tagged), date_range |-> dr,
           df_filtered |-> tagged,
           stats |-> Statistics(tagged, frame),
           daily_stats |-> DailyStats(tagged)]

Commit(touched, userRange, sel, thr) ==
  \E r \in {RunScript(touched, userRange, sel, thr)} :
  /\ r.read => reads < MaxReads
  /\ status' = r.status
  /\ cache' = r.memo
  /\ reads' = IF r.read THEN reads + 1 ELSE reads
  /\ df' = r.df
  /\ date_touched' = touched
  /\ date_range' = r.date_range
  /\ selected_flare' = sel
  /\ flux_threshold' = thr
  /\ df_filtered' = r.df_filtered
  /\ stats' = r.stats
  /\ daily_stats' = r.daily_stats
  /\ UNCHANGED source

Init ==
  /\ source \in SourceFiles
  /\ cache = <<>>
  /\ reads = 0
  /\ status = "init"
  /\ df = EmptyFrame
  /\ date_touched = FALSE
  /\ date_range = <<NaT, NaT>>
  /\ selected_flare = All
  /\ flux_threshold = DefaultThreshold
  /\ df_filtered = EmptyFrame
  /\ stats = NoStatistics
  /\ daily_stats = <<>>

\* The session's first execution: every widget at its default.
FirstRun ==
  /\ status = "init"
  /\ Commit(FALSE, date_range, All, DefaultThreshold)

\* A re-execution with no widget changed (page refresh, "Rerun").
Rerun ==
  /\ status # "init"
  /\ Commit(date_touched, date_range, selected_flare, flux_threshold)

\* The user drags one handle of the date-range slider to another position.
ChangeDateRange ==
  /\ status = "ok"
  /\ \E t \in SliderStops(df), handle \in {1, 2} :
        LET chosen == [date_range EXCEPT ![handle] = t] IN
        /\ chosen[1] <= chosen[2]
        /\ chosen # date_range
        /\ Commit(TRUE, chosen, selected_flare, flux_threshold)

\* The user picks another entry of the class selectbox.
ChangeFlare ==
  /\ status = "ok"
  /\ \E c \in flare_classes(df) \ {selected_flare} :
        Commit(date_touched, date_range, c, flux_threshold)

\* The user enters another threshold.
ChangeThreshold ==
  /\ status = "ok"
  /\ \E t \in ThresholdChoices \ {flux_threshold} :
        Commit(date_touched, date_range, selected_flare, t)

Next == FirstRun \/ Rerun \/ ChangeDateRange \/ ChangeFlare \/ ChangeThreshold

Spec == Init /\ [][Next]_vars

\* ======================================================================
\* Properties
\* ======================================================================

\* The canonical table: what load_data returned and st.cache_data holds.
Canonical == cache[1]

ViewRows == df_filtered.rows

Untagged(r) ==
  [index |-> r.index, timestamp_utc |-> r.timestamp_utc, date |-> r.date,
   hour |-> r.hour, xrs_b_flux |-> r.xrs_b_flux, flare_class |-> r.flare_class,
   status |-> r.status]

\* The filter configuration of the last run, read as a predicate on records.
InDateRange(r) ==
  /\ r.timestamp_utc # NaT
  /\ date_range[1] <= r.timestamp_utc
  /\ r.timestamp_utc <= date_range[2]

InClass(r) == selected_flare # All => r.flare_class = selected_flare

KeptByFilter(r) == InDateRange(r) /\ InClass(r)

\* C1: the filtered view is exactly the subsequence of the canonical records
\* with start <= timestamp <= end (both inclusive) and, unless the class
\* filter is "All", with the selected flare class, in their original order.
C1_FilteredViewIsSelection ==
  status = "ok" =>
    [i \in 1..Len(ViewRows) |-> Untagged(ViewRows[i])]
      = SelectSeq(Canonical.rows, KeptByFilter)

\* C1 witness: a class is selected, a record sits on each bound of the date
\* range and survives, and some record is removed.
C1_Witness ==
  /\ status = "ok"
  /\ selected_flare # All
  /\ Len(ViewRows) >= 2
  /\ Len(ViewRows) < Len(df.rows)
  /\ \E i \in 1..Len(ViewRows) : ViewRows[i].timestamp_utc = date_range[1]
  /\ \E i \in 1..Len(ViewRows) : ViewRows[i].timestamp_utc = date_range[2]
  /\ date_range[1] < date_range[2]

SourceHasUnparseable ==
  \E i \in 1..Len(source) :
     source[i].timestamp_utc # NaN /\ ~MatchesFormat(source[i].timestamp_utc)

ParseableSourceIndexes ==
  { i - 1 : i \in { j \in 1..Len(source) : MatchesFormat(source[j].timestamp_utc) } }

\* C2: with an unparseable timestamp in the source, load_data drops only
\* that row: the load succeeds, the table holds every other row, and every
\* record of it has a non-null timestamp.
C2_BadRowExcludedOnly ==
  (status # "init" /\ SourceHasUnparseable) =>
    /\ status # "load_error"
    /\ Len(cache) = 1
    /\ { Canonical.rows[i].index : i \in 1..Len(Canonical.rows) } = ParseableSourceIndexes
    /\ \A i \in 1..Len(Canonical.rows) : Canonical.rows[i].timestamp_utc # NaT

\* C3: on a view of zero rows the summary has zero counts and no NaN: the
\* high-activity percentage and the mean flux are "no data" values, not 0/0.
C3_EmptyViewStatisticsDefined ==
  (status = "ok" /\ Len(ViewRows) = 0) =>
    /\ stats.total_records = 0
    /\ stats.high_activity = 0
    /\ stats.event_count = 0
    /\ ~IsNaNQuotient(stats.high_pct)
    /\ ~IsNaNQuotient(stats.avg_flux)

\* C4: after every run, whatever the widgets were set to, the table
\* load_data returned is the cached table with its loaded columns and
\* values: the is_high_activity tag is a column of the filtered view only.
C4_CanonicalUnchanged ==
  status = "ok" =>
    /\ df = Canonical
    /\ df.columns = LoadedColumns
    /\ \A i \in 1..Len(df.rows) : "is_high_activity" \notin DOMAIN df.rows[i]
    /\ "is_high_activity" \in df_filtered.columns

\* C4 witness: all three controls were changed and the view holds every
\* record of the table, tagged.
C4_Witness ==
  /\ status = "ok"
  /\ date_touched
  /\ selected_flare # All
  /\ flux_threshold # DefaultThreshold
  /\ Len(df.rows) >= 2
  /\ Len(ViewRows) = Len(df.rows)

ViewDates == { ViewRows[i].date : i \in 1..Len(ViewRows) }

FluxOnDate(d) ==
  { ViewRows[i].xrs_b_flux : i \in { j \in 1..Len(ViewRows) : ViewRows[j].date = d } } \ {NaN}

\* C5: the daily rollup has exactly one row per date occurring in the view
\* and none for other dates, and each row's max_flux is the largest raw flux
\* of the view's records on that date (absent when none of them has a flux).
C5_DailyRollupComplete ==
  status = "ok" =>
    /\ { daily_stats[k].date : k \in 1..Len(daily_stats) } = ViewDates
    /\ \A j, k \in 1..Len(daily_stats) :
          daily_stats[j].date = daily_stats[k].date => j = k
    /\ \A k \in 1..Len(daily_stats) :
          LET fl == FluxOnDate(daily_stats[k].date) IN
          IF fl = {} THEN daily_stats[k].max_flux = NaN
          ELSE /\ daily_stats[k].max_flux \in fl
               /\ \A x \in fl : x <= daily_stats[k].max_flux

\* C5 witness: two dates more than a day apart, one of them holding two
\* records whose larger flux comes first.
C5_Witness ==
  /\ status = "ok"
  /\ Len(daily_stats) = 2
  /\ daily_stats[2].date > daily_stats[1].date + 1
  /\ \E i, j \in 1..Len(ViewRows) :
        /\ i < j
        /\ ViewRows[i].date = ViewRows[j].date
        /\ ViewRows[j].xrs_b_flux # NaN
        /\ ViewRows[i].xrs_b_flux > ViewRows[j].xrs_b_flux

\* C6: once load_data has returned, no later run reads the source again:
\* every later run leaves the read count and the cached table as they are
\* and works on the table of the first load.
C6_SourceReadOnce ==
  [][ Len(cache) = 1 =>
        /\ reads' = reads
        /\ cache' = cache
        /\ (status' = "ok" => df' = cache[1]) ]_vars

\* C6 witness: the source was read once and at least three runs followed.
C6_Witness ==
  /\ status = "ok"
  /\ reads = 1
  /\ Len(cache) = 1
  /\ date_touched
  /\ selected_flare # All
  /\ flux_threshold # DefaultThreshold

\* C7: the threshold removes no row, and every record of the view carries
\* is_high_activity = (flux > threshold), strictly: a flux equal to the
\* threshold and an absent flux are tagged false.
C7_ThresholdOnlyTags ==
  status = "ok" =>
    /\ { ViewRows[i].index : i \in 1..Len(ViewRows) }
         = { Canonical.rows[i].index :
               i \in { j \in 1..Len(Canonical.rows) : KeptByFilter(Canonical.rows[j]) } }
    /\ \A i \in 1..Len(ViewRows) :
          ViewRows[i].is_high_activity
            = (ViewRows[i].xrs_b_flux # NaN /\ ViewRows[i].xrs_b_flux > flux_threshold)

\* C7 witness: the view holds a record above the threshold, one exactly on
\* it and one without flux.
C7_Witness ==
  /\ status = "ok"
  /\ \E i \in 1..Len(ViewRows) : ViewRows[i].is_high_activity
  /\ \E i \in 1..Len(ViewRows) :
        ViewRows[i].xrs_b_flux = flux_threshold /\ ~ViewRows[i].is_high_activity
  /\ \E i \in 1..Len(ViewRows) :
        ViewRows[i].xrs_b_flux = NaN /\ ~ViewRows[i].is_high_activity

\* C8 as stated: the table load_data returns is sorted by timestamp
\* ascending whatever the order of the source rows.
C8_TableSortedByTime ==
  Len(cache) = 1 =>
    \A i, j \in 1..Len(Canonical.rows) :
       (i < j /\ Canonical.rows[i].timestamp_utc # NaT /\ Canonical.rows[j].timestamp_utc # NaT)
         => Canonical.rows[i].timestamp_utc <= Canonical.rows[j].timestamp_utc

\* C8 amended: the table load_data returns keeps the rows in source order
\* (row i of the table is line i of the file), so rows with equal
\* timestamps keep their source order and the table is sorted exactly when
\* the source is.
C8_TableInSourceOrder ==
  Len(cache) = 1 =>
    /\ Len(Canonical.rows) = Len(source)
    /\ \A i \in 1..Len(source) :
          /\ Canonical.rows[i].index = i - 1
          /\ Canonical.rows[i].timestamp_utc = ParseToken(source[i].timestamp_utc)
          /\ Canonical.rows[i].xrs_b_flux = source[i].xrs_b_flux
          /\ Canonical.rows[i].flare_class = source[i].flare_class
          /\ Canonical.rows[i].status = source[i].status

\* C8 witness: a loaded table whose source has a later row with an earlier
\* timestamp.
C8_Witness ==
  /\ Len(cache) = 1
  /\ \E i, j \in 1..Len(source) :
        /\ i < j
        /\ source[j].timestamp_utc # NaN
        /\ source[i].timestamp_utc > source[j].timestamp_utc

ObservedTimes ==
  { Canonical.rows[i].timestamp_utc : i \in 1..Len(Canonical.rows) } \ {NaT}

IsObservedMin(t) == t \in ObservedTimes /\ \A u \in ObservedTimes : t <= u
IsObservedMax(t) == t \in ObservedTimes /\ \A u \in ObservedTimes : u <= t

\* C9 as stated: with the date-range control untouched, the date range is
\* the full observed range, minimum to maximum timestamp.
C9_DefaultSpansObservedRange ==
  (status = "ok" /\ ~date_touched) =>
    /\ IsObservedMin(date_range[1])
    /\ IsObservedMax(date_range[2])

\* C9 amended: with the date-range control untouched, the date range runs
\* from the minimum timestamp to the minimum plus 30 days, and the date
\* clause keeps exactly the records no later than that.
C9_DefaultIsFirstThirtyDays ==
  (status = "ok" /\ ~date_touched) =>
    /\ IsObservedMin(date_range[1])
    /\ date_range[2] = date_range[1] + DefaultSpanDays * HoursPerDay
    /\ selected_flare = All =>
         { ViewRows[i].index : i \in 1..Len(ViewRows) }
           = { Canonical.rows[i].index :
                 i \in { j \in 1..Len(Canonical.rows) :
                           /\ Canonical.rows[j].timestamp_utc # NaT
                           /\ Canonical.rows[j].timestamp_utc
                                <= date_range[1] + DefaultSpanDays * HoursPerDay } }

\* C9 witness: the control is untouched, a record lies exactly 30 days after
\* the first and is kept, and a later record is removed.
C9_Witness ==
  /\ status = "ok"
  /\ ~date_touched
  /\ selected_flare = All
  /\ \E i \in 1..Len(ViewRows) : ViewRows[i].timestamp_utc = date_range[2]
  /\ \E i \in 1..Len(df.rows) : df.rows[i].timestamp_utc > date_range[2]

RECURSIVE SumTotalMinutes(_, _)
SumTotalMinutes(rows, i) ==
  IF i > Len(rows) THEN 0 ELSE rows[i].total_minutes + SumTotalMinutes(rows, i + 1)

RECURSIVE SumHighMinutes(_, _)
SumHighMinutes(rows, i) ==
  IF i > Len(rows) THEN 0 ELSE rows[i].high_activity_minutes + SumHighMinutes(rows, i + 1)

\* C10: each daily row's total_minutes is the number of the view's records
\* on that date, absent flux included, and its high_activity_minutes the
\* number of those tagged; the columns sum to the summary's counts.
C10_DailyCountsAreRowCounts ==
  status = "ok" =>
    /\ \A k \in 1..Len(daily_stats) :
          LET onDate == { i \in 1..Len(ViewRows) : ViewRows[i].date = daily_stats[k].date } IN
          /\ daily_stats[k].total_minutes = Cardinality(onDate)
          /\ daily_stats[k].high_activity_minutes
               = Cardinality({ i \in onDate : ViewRows[i].is_high_activity })
    /\ SumTotalMinutes(daily_stats, 1) = stats.total_records
    /\ SumHighMinutes(daily_stats, 1) = stats.high_activity

====
